---- MODULE Spec2Model ----
(***************************************************************************)
(* EMI plans of the expense-and-diary tracker (src/app.py): the tables     *)
(* emi_plan and emi_payment, the four /api/emi handlers and the schedule   *)
(* computation calculate_emi_schedule.                                     *)
(***************************************************************************)
EXTENDS Integers, Sequences, FiniteSets, Bags, TLC

(***************************************************************************)
(* Calendar dates (datetime.date) and their ISO text.                      *)
(***************************************************************************)
Date(y, m, d) == [year |-> y, month |-> m, day |-> d]

IsLeap(y) == (y % 4 = 0) /\ ((y % 100 # 0) \/ (y % 400 = 0))

\* calendar.monthrange(year, month)[1], used by relativedelta
monthrange(y, m) ==
    IF m = 2 THEN (IF IsLeap(y) THEN 29 ELSE 28)
    ELSE IF m \in {4, 6, 9, 11} THEN 30 ELSE 31

Min(a, b) == IF a < b THEN a ELSE b

\* relativedelta that carries the month above 12 without touching the year
relativedelta_nocarry(dt, n) ==
    LET years  == n \div 12
        months == n % 12
        y      == dt.year + years
        m0     == dt.month + months
        m      == IF m0 > 12 THEN m0 - 12 ELSE m0
    IN  Date(y, m, Min(monthrange(y, m), dt.day))

\* dt + relativedelta(months=+n), n >= 0: the constructor normalises
\* months > 11 into years, the addition carries a month above 12 into the
\* year and clamps the day to the length of the target month
relativedelta(dt, n) ==
    LET years  == n \div 12
        months == n % 12
        y0     == dt.year + years
        m0     == dt.month + months
        y      == IF m0 > 12 THEN y0 + 1 ELSE y0
        m      == IF m0 > 12 THEN m0 - 12 ELSE m0
    IN  Date(y, m, Min(monthrange(y, m), dt.day))

\* text is a sequence of character codes: "0".."9" are 48..57, "-" is 45
Hyphen == 45
Digit(n) == 48 + n

\* zero-padded decimal text of n on w characters
Pad(n, w) == [i \in 1..w |-> Digit((n \div (10 ^ (w - i))) % 10)]

\* date.isoformat(): YYYY-MM-DD
isoformat(dt) ==
    Pad(dt.year, 4) \o <<Hyphen>> \o Pad(dt.month, 2) \o <<Hyphen>> \o Pad(dt.day, 2)

\* value of the decimal text s
RECURSIVE Num(_)
Num(s) == IF s = <<>> THEN 0
          ELSE 10 * Num(SubSeq(s, 1, Len(s) - 1)) + (s[Len(s)] - 48)

\* datetime.strptime(s, "%Y-%m-%d").date() on well-formed text
strptime(s) == Date(Num(SubSeq(s, 1, 4)), Num(SubSeq(s, 6, 7)), Num(SubSeq(s, 9, 10)))

\* Python's str comparison a >= b: lexicographic on the character codes
RECURSIVE StrGE(_, _)
StrGE(a, b) ==
    IF b = <<>> THEN TRUE
    ELSE IF a = <<>> THEN FALSE
    ELSE IF a[1] # b[1] THEN a[1] > b[1]
    ELSE StrGE(Tail(a), Tail(b))

\* str(n) for n >= 0
RECURSIVE str(_)
str(n) == IF n < 10 THEN <<Digit(n)>> ELSE str(n \div 10) \o <<Digit(n % 10)>>

\* chronological order of dates, as the database orders a Date column
DateLT(a, b) ==
    \/ a.year < b.year
    \/ a.year = b.year /\ a.month < b.month
    \/ a.year = b.year /\ a.month = b.month /\ a.day < b.day

DateLE(a, b) == a = b \/ DateLT(a, b)

(***************************************************************************)
(* Bounds of the model and the inputs the handlers are called with.        *)
(***************************************************************************)
MaxPlanId == 2         \* largest primary key given to a plan
MaxPayments == 2       \* rows of emi_payment held at once
MaxMonths == 2         \* largest duration_months of a request
MaxSchedMonths == 14   \* largest duration_months of a schedule input

Threads == {1, 2}      \* request threads that run mark_emi_paid concurrently

\* amount, note and start_date of the add_emi_plan requests
PlanInputs ==
    {[amount |-> 6, note |-> "",    start_date |-> Date(2024, 1, 31)],
     [amount |-> 0, note |-> "",    start_date |-> Date(2024, 1, 31)],
     [amount |-> 6, note |-> "Car", start_date |-> Date(2024, 1, 31)],
     [amount |-> 6, note |-> "",    start_date |-> Date(2024, 2, 29)]}
DurationInputs == {0, MaxMonths}
DueDates == {Date(2024, 1, 31), Date(2024, 2, 29)}
Todays == {Date(2024, 2, 29), Date(2024, 3, 1)}
PlanIds == 1..MaxPlanId

\* inputs of the schedule computation taken alone
SchedYears == {2023, 2024}
SchedDays == {1, 28, 29, 30, 31}
SchedStarts ==
    {dt \in [year : SchedYears, month : 1..12, day : SchedDays] :
        dt.day <= monthrange(dt.year, dt.month)}

VARIABLES
    emi_plan,       \* table EMIPlan: set of rows
    emi_payment,    \* table EMIPayment: bag of rows
    request,        \* the request the last finished handler served
    response,       \* its status code and JSON body
    effect,         \* what that handler wrote: rows inserted and deleted
    pc,             \* per thread: position in mark_emi_paid
    local,          \* per thread: plan_id, due_date_str and the looked-up payment
    sched_plan,     \* the plan given to calculate_emi_schedule taken alone
    sched_out       \* its result

vars == <<emi_plan, emi_payment, request, response, effect, pc, local,
          sched_plan, sched_out>>

(***************************************************************************)
(* Tables.                                                                 *)
(***************************************************************************)
EMIPlan(id, start_date, amount, duration_months, note, monthly_payment) ==
    [id |-> id, start_date |-> start_date, amount |-> amount,
     duration_months |-> duration_months, note |-> note,
     monthly_payment |-> monthly_payment]

\* the primary key of EMIPayment is never read: rows that agree on the other
\* columns are copies of one element of the bag
EMIPayment(plan_id, due_date, paid) ==
    [plan_id |-> plan_id, due_date |-> due_date, paid |-> paid]

\* the rows of a bag that a query keeps, with their copies
RowsOf(rows, kept) == [p \in kept |-> rows[p]]

SetMax(S) == CHOOSE x \in S : \A y \in S : y <= x

\* an INTEGER PRIMARY KEY without AUTOINCREMENT: one more than the largest
\* key in the table
NextId(rows) == IF rows = {} THEN 1 ELSE SetMax({r.id : r \in rows}) + 1

\* plan.payments: the rows of emi_payment whose plan_id is the plan's id
payments(plan_id, rows) ==
    RowsOf(rows, {p \in BagToSet(rows) : p.plan_id = plan_id})

(***************************************************************************)
(* calculate_emi_schedule                                                  *)
(***************************************************************************)
\* paid dates read from the whole table instead of plan.payments
paid_dates_all(plan, rows) == {isoformat(p.due_date) : p \in BagToSet(rows)}

paid_dates(plan, rows) ==
    {isoformat(p.due_date) : p \in BagToSet(payments(plan.id, rows))}

calculate_emi_schedule(plan, rows) ==
    [k \in 1..plan.duration_months |->
        LET i        == k - 1
            due_date == relativedelta(plan.start_date, i)
            date_str == isoformat(due_date)
        IN  [plan_id  |-> plan.id,
             emi_key  |-> str(plan.id) \o <<Hyphen>> \o date_str,
             month    |-> SubSeq(date_str, 1, 7),
             due_date |-> date_str,
             amount   |-> plan.monthly_payment,
             note     |-> plan.note,
             is_paid  |-> date_str \in paid_dates(plan, rows)]]

(***************************************************************************)
(* list_emi_plans                                                          *)
(***************************************************************************)
\* EMIPlan.query.order_by(EMIPlan.start_date.desc(), EMIPlan.id.desc()).all()
RECURSIVE order_by(_)
order_by(rows) ==
    IF rows = {} THEN <<>>
    ELSE LET first == CHOOSE p \in rows : \A q \in rows :
                          \/ q = p
                          \/ DateLT(q.start_date, p.start_date)
                          \/ q.start_date = p.start_date /\ q.id < p.id
         IN  <<first>> \o order_by(rows \ {first})

\* all_payments after the loop over the first n plans
RECURSIVE extend(_, _, _)
extend(plans, n, rows) ==
    IF n = 0 THEN <<>>
    ELSE extend(plans, n - 1, rows) \o calculate_emi_schedule(plans[n], rows)

total_paid(payments_schedule) ==
    Len(SelectSeq(payments_schedule, LAMBDA p : p.is_paid))

plans_list(plans, rows) ==
    [n \in 1..Len(plans) |->
        LET plan == plans[n]
            payments_schedule == calculate_emi_schedule(plan, rows)
            last_date == relativedelta(plan.start_date, plan.duration_months - 1)
        IN  [id              |-> plan.id,
             start_date      |-> isoformat(plan.start_date),
             amount          |-> plan.amount,
             duration_months |-> plan.duration_months,
             monthly_payment |-> plan.monthly_payment,
             note            |-> plan.note,
             last_date       |-> isoformat(last_date),
             total_paid      |-> total_paid(payments_schedule),
             total_payments  |-> plan.duration_months]]

\* the filter with a strict comparison
is_upcoming_strict(p, today) ==
    ~p.is_paid /\ ~StrGE(isoformat(today), p.due_date)

\* the filter of line 399: unpaid and due today or later, compared as text
is_upcoming(p, today) == ~p.is_paid /\ StrGE(p.due_date, isoformat(today))

\* list.sort(key=due_date) is stable: x goes behind every element whose key
\* is not greater than its own
RECURSIVE insert(_, _)
insert(sorted, x) ==
    IF sorted = <<>> THEN <<x>>
    ELSE IF StrGE(x.due_date, sorted[1].due_date)
         THEN <<sorted[1]>> \o insert(Tail(sorted), x)
         ELSE <<x>> \o sorted

RECURSIVE sort(_)
sort(s) == IF s = <<>> THEN <<>>
           ELSE insert(sort(SubSeq(s, 1, Len(s) - 1)), s[Len(s)])

upcoming_payments(plans, rows, today) ==
    sort(SelectSeq(extend(plans, Len(plans), rows),
                   LAMBDA p : is_upcoming(p, today)))

list_emi_plans ==
    \E today \in Todays :
        LET plans == order_by(emi_plan)
        IN  /\ request' = [op |-> "list_emi_plans", today |-> today]
            /\ response' = [code |-> 200,
                            plans |-> plans_list(plans, emi_payment),
                            upcoming_payments |->
                                upcoming_payments(plans, emi_payment, today)]
            /\ effect' = [inserted |-> {}, deleted |-> {}]
            /\ UNCHANGED <<emi_plan, emi_payment, pc, local,
                           sched_plan, sched_out>>

(***************************************************************************)
(* add_emi_plan                                                            *)
(***************************************************************************)
\* the duplicate check skipped for an empty note
existing_plan_noted(rows, note, dt) ==
    note # "" /\ \E p \in rows : p.note = note /\ p.start_date = dt

\* EMIPlan.query.filter_by(note=note, start_date=dt).first() is not None
existing_plan(rows, note, dt) ==
    \E p \in rows : p.note = note /\ p.start_date = dt

\* amount / duration_months; the amounts of the model are multiples of the
\* durations, so the quotient is exact
monthly_payment(amount, duration_months) == amount \div duration_months

add_emi_plan ==
    \E input \in PlanInputs, duration_months \in DurationInputs :
        LET data == [op |-> "add_emi_plan", amount |-> input.amount,
                     duration_months |-> duration_months, note |-> input.note,
                     start_date |-> isoformat(input.start_date)]
            amount == data.amount
            note == data.note
            dt   == strptime(data.start_date)
            emi  == EMIPlan(NextId(emi_plan), dt, amount, duration_months, note,
                            monthly_payment(amount, duration_months))
        IN  /\ request' = data
            /\ IF duration_months <= 0
               THEN /\ response' = [code |-> 400, status |-> "error",
                                    message |-> "Duration must be greater than 0"]
                    /\ effect' = [inserted |-> {}, deleted |-> {}]
                    /\ UNCHANGED emi_plan
               ELSE IF existing_plan(emi_plan, note, dt)
               THEN /\ response' = [code |-> 409, status |-> "error",
                                    message |-> "A plan with this note and start date already exists."]
                    /\ effect' = [inserted |-> {}, deleted |-> {}]
                    /\ UNCHANGED emi_plan
               ELSE /\ emi.id <= MaxPlanId
                    /\ emi_plan' = emi_plan \cup {emi}
                    /\ response' = [code |-> 201, status |-> "ok", id |-> emi.id,
                                    monthly_payment |-> emi.monthly_payment]
                    /\ effect' = [inserted |-> {emi}, deleted |-> {}]
            /\ UNCHANGED <<emi_payment, pc, local, sched_plan, sched_out>>

(***************************************************************************)
(* mark_emi_paid                                                           *)
(***************************************************************************)
\* the result of a query's first(): the row in a set, or the empty set
None == {}

\* EMIPayment.query.filter_by(plan_id=plan_id, due_date=due_date).first():
\* the results the query may return, None when no row matches
first_payment(rows, plan_id, due_date) ==
    LET found == {p \in BagToSet(rows) : p.plan_id = plan_id /\ p.due_date = due_date}
    IN  IF found = {} THEN {None} ELSE {{p} : p \in found}

\* a commit that adds a row whether or not the query found one
commit_payment_insert(rows, plan_id, due_date, payment) ==
    rows (+) SetToBag({EMIPayment(plan_id, due_date, TRUE)})

\* lines 418-425: the table after the commit; the update of a row that was
\* deleted since the query writes nothing
commit_payment(rows, plan_id, due_date, payment) ==
    IF payment = None
    THEN rows (+) SetToBag({EMIPayment(plan_id, due_date, TRUE)})
    ELSE LET p == CHOOSE q \in payment : TRUE
         IN  IF BagIn(p, rows)
             THEN (rows (-) SetToBag({p})) (+) SetToBag({[p EXCEPT !.paid = TRUE]})
             ELSE rows

\* the rows the commit adds
inserted_payments(plan_id, due_date, payment) ==
    IF payment = None THEN {EMIPayment(plan_id, due_date, TRUE)} ELSE {}

\* the commit stays within the bounds of the model
CanCommit(rows, payment) ==
    payment = None => BagCardinality(rows) < MaxPayments

mark_request(plan_id, due_date_str) ==
    [op |-> "mark_emi_paid", plan_id |-> plan_id, due_date |-> due_date_str]

mark_response(plan_id, due_date_str) ==
    [code |-> 200, status |-> "ok", plan_id |-> plan_id, due_date |-> due_date_str]

Stored(plan_id) == \E p \in emi_plan : p.id = plan_id

\* the handler run by one thread alone, from the query to the response
mark_emi_paid ==
    \E plan_id \in PlanIds, d \in DueDates :
        LET due_date_str == isoformat(d)
            due_date     == strptime(due_date_str)
        IN  \E payment \in first_payment(emi_payment, plan_id, due_date) :
                /\ CanCommit(emi_payment, payment)
                /\ emi_payment' = commit_payment(emi_payment, plan_id, due_date, payment)
                /\ request' = mark_request(plan_id, due_date_str)
                /\ response' = mark_response(plan_id, due_date_str)
                /\ effect' = [inserted |-> inserted_payments(plan_id, due_date, payment),
                              deleted |-> {}]
                /\ UNCHANGED <<emi_plan, pc, local, sched_plan, sched_out>>

\* thread t runs lines 409-416: it reads the request and looks the payment up
mark_lookup(t) ==
    \E plan_id \in PlanIds, d \in DueDates :
        LET due_date_str == isoformat(d)
            due_date     == strptime(due_date_str)
        IN  \E payment \in first_payment(emi_payment, plan_id, due_date) :
                /\ pc[t] = "idle"
                /\ pc' = [pc EXCEPT ![t] = "commit"]
                /\ local' = [local EXCEPT ![t] =
                                [plan_id |-> plan_id, due_date_str |-> due_date_str,
                                 payment |-> payment]]
                /\ UNCHANGED <<emi_plan, emi_payment, request, response, effect,
                               sched_plan, sched_out>>

\* thread t runs lines 418-426: it adds or updates the row, commits, answers
mark_commit(t) ==
    LET plan_id  == local[t].plan_id
        due_date == strptime(local[t].due_date_str)
        payment  == local[t].payment
    IN  /\ pc[t] = "commit"
        /\ CanCommit(emi_payment, payment)
        /\ emi_payment' = commit_payment(emi_payment, plan_id, due_date, payment)
        /\ request' = mark_request(plan_id, local[t].due_date_str)
        /\ response' = mark_response(plan_id, local[t].due_date_str)
        /\ effect' = [inserted |-> inserted_payments(plan_id, due_date, payment),
                      deleted |-> {}]
        /\ pc' = [pc EXCEPT ![t] = "idle"]
        /\ local' = [local EXCEPT ![t] = [plan_id |-> None, due_date_str |-> <<>>,
                                          payment |-> None]]
        /\ UNCHANGED <<emi_plan, sched_plan, sched_out>>

(***************************************************************************)
(* delete_emi_plan                                                         *)
(***************************************************************************)
\* a relationship that deletes no payment with its plan
cascade_none(emi, rows) == EmptyBag

\* cascade='all, delete-orphan' on EMIPlan.payments: the rows deleted with emi
cascade(emi, rows) == payments(emi.id, rows)

delete_emi_plan ==
    \E emi_id \in PlanIds :
        /\ request' = [op |-> "delete_emi_plan", emi_id |-> emi_id]
        /\ IF ~Stored(emi_id)
           THEN \* get_or_404
                /\ response' = [code |-> 404]
                /\ effect' = [inserted |-> {}, deleted |-> {}]
                /\ UNCHANGED <<emi_plan, emi_payment>>
           ELSE LET emi == CHOOSE p \in emi_plan : p.id = emi_id
                    orphans == cascade(emi, emi_payment)
                IN  /\ emi_plan' = emi_plan \ {emi}
                    /\ emi_payment' = emi_payment (-) orphans
                    /\ response' = [code |-> 200, status |-> "ok", id |-> emi.id]
                    /\ effect' = [inserted |-> {}, deleted |-> {emi} \cup BagToSet(orphans)]
        /\ UNCHANGED <<pc, local, sched_plan, sched_out>>

(***************************************************************************)
(* The schedule computation taken alone.                                   *)
(***************************************************************************)
SchedPlans ==
    {EMIPlan(1, dt, 6 * n, n, "", monthly_payment(6 * n, n)) :
        dt \in SchedStarts, n \in 1..MaxSchedMonths}

schedule ==
    /\ sched_out = <<>>
    /\ sched_out' = calculate_emi_schedule(sched_plan, emi_payment)
    /\ UNCHANGED <<emi_plan, emi_payment, request, response, effect,
                   pc, local, sched_plan>>

(***************************************************************************)
(* Specifications.                                                         *)
(***************************************************************************)
InitRequest ==
    /\ request = [op |-> "none"]
    /\ response = [code |-> 0]
    /\ effect = [inserted |-> {}, deleted |-> {}]
    /\ pc = [t \in Threads |-> "idle"]
    /\ local = [t \in Threads |-> [plan_id |-> None, due_date_str |-> <<>>,
                                   payment |-> None]]

InitStore ==
    /\ emi_plan = {}
    /\ emi_payment = EmptyBag
    /\ InitRequest

Init ==
    /\ InitStore
    /\ sched_plan = EMIPlan(1, Date(2024, 1, 31), 6, 1, "", 6)
    /\ sched_out = <<>>

\* requests served one after another
NextSeq ==
    \/ add_emi_plan
    \/ list_emi_plans
    \/ mark_emi_paid
    \/ delete_emi_plan

SpecSeq == Init /\ [][NextSeq]_vars

\* requests served by threads: mark_emi_paid of one thread interleaves with
\* mark_emi_paid of the other thread and with the handlers that write plans
\* (list_emi_plans writes nothing and is left to SpecSeq)
Next ==
    \/ add_emi_plan
    \/ delete_emi_plan
    \/ \E t \in Threads : mark_lookup(t)
    \/ \E t \in Threads : mark_commit(t)

Spec == Init /\ [][Next]_vars

InitSched ==
    /\ InitStore
    /\ sched_plan \in SchedPlans
    /\ sched_out = <<>>

NextSched == schedule

SpecSched == InitSched /\ [][NextSched]_vars

(***************************************************************************)
(* Properties.                                                             *)
(***************************************************************************)
\* the rows of emi_payment kept for one (plan_id, due_date)
Records(rows, plan_id, due_date) ==
    RowsOf(rows, {p \in BagToSet(rows) :
                     p.plan_id = plan_id /\ p.due_date = due_date})

\* the stored plan with the given id
PlanOf(id) == CHOOSE p \in emi_plan : p.id = id

\* count of calendar months since year 0
MonthIndex(dt) == dt.year * 12 + dt.month - 1

\* C1: when mark_emi_paid calls for the same (plan_id, due_date) of a stored
\* plan interleave their query and their commit, every call answers 200 and
\* the table ends with exactly one row for that (plan_id, due_date) (shown
\* on stores whose plans have positive amounts).
C1_OneRecordPerKey ==
    (/\ request.op = "mark_emi_paid"
     /\ Stored(request.plan_id)
     /\ \A p \in emi_plan : p.amount > 0) =>
        /\ response.code = 200
        /\ BagCardinality(Records(emi_payment, request.plan_id,
                                  strptime(request.due_date))) = 1

\* the tables mark_emi_paid may leave when it runs alone on rows
MarkedTables(rows, plan_id, due_date) ==
    {commit_payment(rows, plan_id, due_date, payment) :
        payment \in first_payment(rows, plan_id, due_date)}

\* C2: run one after another, a second mark_emi_paid(plan_id, due_date)
\* leaves the table as the first left it (the same rows with the same paid
\* flags, hence the same paid occurrences), it answers 200, and no
\* (plan_id, due_date) has more than one row.
C2_Idempotent ==
    /\ \A plan_id \in PlanIds, d \in DueDates :
          \A once \in MarkedTables(emi_payment, plan_id, d) :
              MarkedTables(once, plan_id, d) = {once}
    /\ \A plan_id \in PlanIds, d \in DueDates :
          BagCardinality(Records(emi_payment, plan_id, d)) <= 1
    /\ request.op = "mark_emi_paid" =>
          /\ response.code = 200
          /\ \E p \in BagToSet(emi_payment) :
                /\ Records(emi_payment, request.plan_id,
                           strptime(request.due_date)) = SetToBag({p})
                /\ p.paid

\* a mark_emi_paid call that found the row of an earlier call
C2_Witness ==
    /\ request.op = "mark_emi_paid"
    /\ response.code = 200
    /\ effect.inserted = {}
    /\ Stored(request.plan_id)

\* C3 as stated: add_emi_plan called with the (note, start_date) of a stored
\* plan answers 409 and leaves emi_plan unchanged (shown on positive amounts).
C3_Original ==
    [][(/\ request'.op = "add_emi_plan"
        /\ request'.amount > 0
        /\ \A p \in emi_plan : p.amount > 0
        /\ \E p \in emi_plan : /\ p.note = request'.note
                               /\ isoformat(p.start_date) = request'.start_date)
       => (response'.code = 409 /\ emi_plan' = emi_plan)]_vars

\* C3: add_emi_plan called with duration_months > 0 and the (note,
\* start_date) of a stored plan answers 409 and leaves emi_plan unchanged, so
\* exactly one stored plan holds that pair.
C3_DuplicateRejected ==
    [][(/\ request'.op = "add_emi_plan"
        /\ request'.duration_months > 0
        /\ \E p \in emi_plan : /\ p.note = request'.note
                               /\ isoformat(p.start_date) = request'.start_date)
       => (/\ response'.code = 409
           /\ emi_plan' = emi_plan
           /\ emi_payment' = emi_payment
           /\ Cardinality({p \in emi_plan' :
                              /\ p.note = request'.note
                              /\ isoformat(p.start_date) = request'.start_date}) = 1)]_vars

\* a rejected duplicate with an empty note, a second plan being stored
C3_Witness ==
    /\ request.op = "add_emi_plan"
    /\ response.code = 409
    /\ request.note = ""
    /\ Cardinality(emi_plan) = 2

\* C4: after delete_emi_plan(id) answers 200 the plan is gone, no payment
\* row has plan_id = id, and the rows of the other plans are as before.
C4_Cascade ==
    [][(request'.op = "delete_emi_plan" /\ response'.code = 200)
       => (/\ \A p \in emi_plan' : p.id # request'.emi_id
           /\ emi_plan' = {p \in emi_plan : p.id # request'.emi_id}
           /\ \A p \in BagToSet(emi_payment') : p.plan_id # request'.emi_id
           /\ emi_payment'
                  = RowsOf(emi_payment, {p \in BagToSet(emi_payment) :
                                            p.plan_id # request'.emi_id}))]_vars

\* a plan deleted together with a payment, a payment of another plan left
C4_Witness ==
    /\ request.op = "delete_emi_plan"
    /\ response.code = 200
    /\ Cardinality(effect.deleted) >= 2
    /\ emi_payment # EmptyBag

\* C5: mark_emi_paid and delete_emi_plan called with an id of no stored plan
\* answer 404 and leave both tables unchanged.
C5_NotFound ==
    [][(\/ request'.op = "mark_emi_paid" /\ ~Stored(request'.plan_id)
        \/ request'.op = "delete_emi_plan" /\ ~Stored(request'.emi_id))
       => (/\ response'.code = 404
           /\ emi_plan' = emi_plan
           /\ emi_payment' = emi_payment)]_vars

\* C6: every stored plan has duration_months > 0 and amount > 0, and
\* add_emi_plan called with duration_months <= 0 or amount <= 0 answers 400.
C6_PositivePlans ==
    /\ \A p \in emi_plan : p.duration_months > 0 /\ p.amount > 0
    /\ (/\ request.op = "add_emi_plan"
        /\ (request.duration_months <= 0 \/ request.amount <= 0))
       => response.code = 400

\* the text of 2024-01-31, 2024-02-29 and 2024-03-31
Text_2024_01_31 == <<50, 48, 50, 52, 45, 48, 49, 45, 51, 49>>
Text_2024_02_29 == <<50, 48, 50, 52, 45, 48, 50, 45, 50, 57>>
Text_2024_03_31 == <<50, 48, 50, 52, 45, 48, 51, 45, 51, 49>>

\* C7: the schedule of a plan has duration_months occurrences; the i-th
\* (from 0) falls i calendar months after the start month, on the start day
\* or, when the month is shorter, on its last day; 2024-01-31 over 3 months
\* gives 2024-01-31, 2024-02-29, 2024-03-31.
C7_Schedule ==
    sched_out # <<>> =>
        /\ Len(sched_out) = sched_plan.duration_months
        /\ \A k \in 1..Len(sched_out) :
              LET due == strptime(sched_out[k].due_date)
              IN  /\ sched_out[k].due_date = isoformat(due)
                  /\ due.month \in 1..12
                  /\ MonthIndex(due) = MonthIndex(sched_plan.start_date) + (k - 1)
                  /\ due.day = Min(sched_plan.start_date.day,
                                   monthrange(due.year, due.month))
        /\ (sched_plan.start_date = Date(2024, 1, 31) /\ sched_plan.duration_months = 3)
              => [k \in 1..3 |-> sched_out[k].due_date]
                     = <<Text_2024_01_31, Text_2024_02_29, Text_2024_03_31>>

\* the schedule of 2024-01-31 over 3 months
C7_Witness ==
    /\ sched_plan.start_date = Date(2024, 1, 31)
    /\ sched_plan.duration_months = 3
    /\ Len(sched_out) = 3

\* the months (from 0) of plan whose occurrence has a payment row on its date
PaidMonths(plan) ==
    {i \in 0..(plan.duration_months - 1) :
        \E r \in BagToSet(emi_payment) :
            /\ r.plan_id = plan.id
            /\ r.due_date = relativedelta(plan.start_date, i)}

\* C8: an occurrence is paid exactly when a payment row of its plan has its
\* due date, total_paid counts those occurrences and total_payments is
\* duration_months.
C8_Reconcile ==
    request.op = "list_emi_plans" =>
          /\ \A plan \in emi_plan :
                LET payments_schedule == calculate_emi_schedule(plan, emi_payment)
                IN  \A k \in 1..Len(payments_schedule) :
                        payments_schedule[k].is_paid <=>
                            \E r \in BagToSet(emi_payment) :
                                /\ r.plan_id = plan.id
                                /\ r.due_date = strptime(payments_schedule[k].due_date)
          /\ {response.plans[n].id : n \in 1..Len(response.plans)}
                 = {p.id : p \in emi_plan}
          /\ \A n \in 1..Len(response.plans) :
                LET plan == PlanOf(response.plans[n].id)
                IN  /\ response.plans[n].total_paid = Cardinality(PaidMonths(plan))
                    /\ response.plans[n].total_payments = plan.duration_months

\* a listed plan with a paid occurrence and a payment on no occurrence
C8_Witness ==
    /\ request.op = "list_emi_plans"
    /\ \E n \in 1..Len(response.plans) :
          /\ response.plans[n].total_paid = 1
          /\ BagCardinality(payments(response.plans[n].id, emi_payment)) = 2
    /\ \E n \in 1..Len(response.plans) :
          /\ response.plans[n].total_paid = 0
          /\ emi_payment # EmptyBag

\* the occurrences (plan id, month from 0) that are unpaid and due on or
\* after today
Upcoming(today) ==
    {o \in {<<plan.id, i>> : plan \in emi_plan, i \in 0..MaxMonths} :
        LET plan == PlanOf(o[1])
        IN  /\ o[2] < plan.duration_months
            /\ o[2] \notin PaidMonths(plan)
            /\ DateLE(today, relativedelta(plan.start_date, o[2]))}

\* position of the plan with the given id in the listed plans
Listed(id) == CHOOSE n \in 1..Len(response.plans) : response.plans[n].id = id

\* C9: upcoming_payments holds each unpaid occurrence due on or after today
\* once and nothing else, ascending by due date, occurrences of one date in
\* the order their plans are listed.
C9_Upcoming ==
    request.op = "list_emi_plans" =>
        LET U == response.upcoming_payments
            today == request.today
        IN  /\ Len(U) = Cardinality(Upcoming(today))
            /\ \A o \in Upcoming(today) :
                  \E j \in 1..Len(U) :
                      /\ U[j].plan_id = o[1]
                      /\ strptime(U[j].due_date)
                             = relativedelta(PlanOf(o[1]).start_date, o[2])
            /\ \A j \in 1..Len(U) :
                  \E o \in Upcoming(today) :
                      /\ U[j].plan_id = o[1]
                      /\ strptime(U[j].due_date)
                             = relativedelta(PlanOf(o[1]).start_date, o[2])
            /\ \A j, k \in 1..Len(U) :
                  j < k =>
                      /\ DateLE(strptime(U[j].due_date), strptime(U[k].due_date))
                      /\ U[j].due_date = U[k].due_date
                            => Listed(U[j].plan_id) < Listed(U[k].plan_id)

\* a listing with two plans due on one date, a paid occurrence left out and
\* an unpaid occurrence before today left out
C9_Witness ==
    /\ request.op = "list_emi_plans"
    /\ Len(response.upcoming_payments) = 2
    /\ response.upcoming_payments[1].due_date = response.upcoming_payments[2].due_date
    /\ \E n \in 1..Len(response.plans) : response.plans[n].total_paid = 1
    /\ \E p \in emi_plan :
          /\ DateLT(p.start_date, request.today)
          /\ 0 \notin PaidMonths(p)

\* C10: a plan that add_emi_plan has just created, no mark_emi_paid call
\* having been made for it, has every occurrence unpaid.
C10_NewPlanUnpaid ==
    (request.op = "add_emi_plan" /\ response.code = 201) =>
        LET payments_schedule ==
                calculate_emi_schedule(PlanOf(response.id), emi_payment)
        IN  /\ total_paid(payments_schedule) = 0
            /\ \A k \in 1..Len(payments_schedule) : ~payments_schedule[k].is_paid
====
